---- MODULE Spec2Model ----
(***************************************************************************)
(* A model of crates/fuzzy/src/strings.rs: the StringMatch order, the      *)
(* parallel entry point match_strings (fan-out of one scoring task per     *)
(* segment, join, sequential merge), the synchronous entry point           *)
(* match_strings_synchronously, and the range iterator StringMatch::ranges.*)
(*                                                                         *)
(* Matcher::match_candidates (crates/fuzzy/src/matcher.rs) and             *)
(* util::extend_sorted (crates/util) are called by strings.rs but are not  *)
(* part of the sources at hand; they are modelled from the Scorer contract *)
(* and the merge description of the specification.  The score the Scorer   *)
(* assigns to a candidate is an oracle carried by the candidate (field     *)
(* score; 0 means "not admissible or no match").                           *)
(***************************************************************************)
EXTENDS Integers, Sequences, FiniteSets, TLC

\* ------------------------------------------------------------------ bounds
MaxCands == 3
MaxScore == 2
MaxResults == 2
MaxCpus == 3
MaxChars == 3
MaxCharLen == 2
MaxPositions == 3
MaxShardCands == 5
MaxItemHeight == 2
MaxListHeight == 3
MaxItemCount == 1
MaxIx == 3
MaxScrollTop == 4

VARIABLES
    candidates,        \* the candidate slice of the call: records [id, string, score]
    query,             \* the query, a sequence of characters
    smart_case,        \* passed through to the Matcher
    max_results,       \* the result cap
    executor_cpus,     \* executor.num_cpus()
    cancel_flag,       \* the AtomicBool shared with the caller
    pc,                \* match_strings: "idle", "spawned", "merging", "done"
    task_pc,           \* per spawned task: "scoring" or "done"
    task_ix,           \* per task: offset of the next candidate it examines
    segment_results,   \* per task: its result list
    merge_ix,          \* index of the next segment_result the merge loop takes
    results,           \* the merge accumulator, then the returned value
    tasks_launched,    \* history: scope.spawn calls of this match_strings call
    scorer_calls,      \* history: Matcher::match_candidates invocations
    sync_pc,           \* match_strings_synchronously: "idle", "scoring", "done"
    sync_ix,           \* offset of the next candidate the synchronous pass examines
    sync_results,      \* the results of match_strings_synchronously
    r_string,          \* ranges(): self.string, as bytes (see Texts)
    r_positions,       \* ranges(): self.positions
    r_cursor,          \* ranges(): how many positions the peekable iterator has consumed
    r_out,             \* the ranges the iterator has yielded so far
    r_ended,           \* the iterator has returned None to its consumer
    r_logged,          \* log::error! diagnostics raised
    o_a, o_b, o_c,     \* three StringMatch values handed to cmp and eq
    o_out,             \* what cmp and eq returned for them (None before the calls)
    l_state,           \* ListScrollHandle: None or Some(ListScrollHandleState)
    l_scroll_y,        \* the y of the scroll offset the list's interactive state shares
    l_call             \* history: None, or the scroll_to_item call that was the last step

vars == <<candidates, query, smart_case, max_results, executor_cpus, cancel_flag,
          pc, task_pc, task_ix, segment_results, merge_ix, results,
          tasks_launched, scorer_calls, sync_pc, sync_ix, sync_results,
          r_string, r_positions, r_cursor, r_out, r_ended, r_logged,
          o_a, o_b, o_c, o_out, l_state, l_scroll_y, l_call>>

orderVars == <<o_a, o_b, o_c, o_out>>
listVars == <<l_state, l_scroll_y, l_call>>

rangesVars == <<r_string, r_positions, r_cursor, r_out, r_ended, r_logged>>

inputs == <<candidates, query, smart_case, max_results, executor_cpus>>
parallel == <<pc, task_pc, task_ix, segment_results, merge_ix, results, tasks_launched>>
synchronous == <<sync_pc, sync_ix, sync_results>>

\* ------------------------------------------------------------- sequences
Min(a, b) == IF a <= b THEN a ELSE b

\* Vec::insert(index, element), index 0-based
Insert(vec, index, element) ==
    SubSeq(vec, 1, index) \o <<element>> \o SubSeq(vec, index + 1, Len(vec))

\* Vec::pop(): the vector without its last element
Pop(vec) == SubSeq(vec, 1, Len(vec) - 1)

\* ---------------------------------------------------------- StringMatch
\* f64 scores are modelled by integers; NaN is the one value that compares with nothing
NaN == -1

\* f64::partial_cmp
partial_cmp(a, b) ==
    IF a = NaN \/ b = NaN THEN "None"
    ELSE IF a < b THEN "Less"
    ELSE IF a > b THEN "Greater"
    ELSE "Equal"

\* usize::cmp
usize_cmp(a, b) == IF a < b THEN "Less" ELSE IF a > b THEN "Greater" ELSE "Equal"

\* A plausible slip: the tie-break on candidate_id taken the other way round
cmp_id_reversed(self, other) ==
    LET by_score == partial_cmp(self.score, other.score)
        unwrapped == IF by_score = "None" THEN "Equal" ELSE by_score
    IN IF unwrapped /= "Equal" THEN unwrapped
       ELSE usize_cmp(other.candidate_id, self.candidate_id)

\* impl Ord for StringMatch: score, then candidate_id
cmp(self, other) ==
    LET by_score == partial_cmp(self.score, other.score)
        unwrapped == IF by_score = "None" THEN "Equal" ELSE by_score
    IN IF unwrapped /= "Equal" THEN unwrapped
       ELSE usize_cmp(self.candidate_id, other.candidate_id)

\* impl PartialEq for StringMatch
eq(self, other) == cmp(self, other) = "Equal"

\* A plausible slip: the candidate's id is not copied into the match
scored_candidate_to_string_match_no_id(candidate, score) ==
    [candidate_id |-> 0, score |-> score,
     positions |-> <<>>, string |-> candidate.string]

scored_candidate_to_string_match(candidate, score) ==
    [candidate_id |-> candidate.id, score |-> score,
     positions |-> <<>>, string |-> candidate.string]

\* ----------------------------------------------------------- the Scorer
\* impl Match for StringMatch: set_positions
set_positions(mat, positions) == [mat EXCEPT !.positions = positions]

\* Matcher.match_positions after scoring a candidate: the positions the Matcher
\* found, abstracted to the first byte of the candidate
match_positions(candidate) == <<0>>

\* One iteration of the loop of Matcher::match_candidates over one candidate:
\* a candidate that is not admissible or scores 0 adds nothing; otherwise the
\* match is inserted into results, kept sorted descending by cmp and capped.
match_candidate(res, candidate, cap) ==
    IF candidate.score <= 0 THEN res
    ELSE LET mat == scored_candidate_to_string_match(candidate, candidate.score)
             found == \E j \in 1..Len(res) : cmp(mat, res[j]) = "Equal"
             i == Cardinality({j \in 1..Len(res) : cmp(mat, res[j]) = "Less"})
             placed == set_positions(mat, match_positions(candidate))
         IN IF found THEN res
            ELSE IF Len(res) < cap THEN Insert(res, i, placed)
            ELSE IF i < Len(res) THEN Insert(Pop(res), i, placed)
            ELSE res

\* ------------------------------------------------------------ the merge
\* A plausible slip: the comparator not reversed
merge_cmp_unreversed(a, b) == cmp(a, b)

\* The comparator handed to extend_sorted: |a, b| b.cmp(a)
merge_cmp(a, b) == cmp(b, a)

RECURSIVE extend_sorted_from(_, _, _, _)
extend_sorted_from(vec, new_items, limit, start_index) ==
    IF new_items = <<>> THEN vec
    ELSE LET new_item == Head(new_items)
             slice == (start_index + 1)..Len(vec)
             found == \E j \in slice : merge_cmp(vec[j], new_item) = "Equal"
             index == start_index
                      + Cardinality({j \in slice : merge_cmp(vec[j], new_item) = "Less"})
         IN IF found
            THEN extend_sorted_from(vec, Tail(new_items), limit, start_index)
            ELSE IF Len(vec) < limit
            THEN extend_sorted_from(Insert(vec, index, new_item),
                                    Tail(new_items), limit, index)
            ELSE IF index < Len(vec)
            THEN extend_sorted_from(Insert(Pop(vec), index, new_item),
                                    Tail(new_items), limit, index)
            ELSE extend_sorted_from(vec, Tail(new_items), limit, index)

\* util::extend_sorted(vec, new_items, limit, cmp) with cmp = merge_cmp
extend_sorted(vec, new_items, limit) == extend_sorted_from(vec, new_items, limit, 0)

\* ------------------------------------------------------- match_strings
\* A plausible slip: the early return forgets the cap of zero
is_degenerate_no_cap(cands, cap) == Len(cands) = 0

\* candidates.is_empty() || max_results == 0
is_degenerate(cands, cap) == Len(cands) = 0 \/ cap = 0

\* A plausible slip: the empty-query branch applies the cap
empty_query_results_capped(cands) ==
    [i \in 1..Min(Len(cands), max_results) |->
        scored_candidate_to_string_match(cands[i], 0)]

\* The empty-query branch: every candidate, in input order, with score 0
empty_query_results(cands) ==
    [i \in 1..Len(cands) |-> scored_candidate_to_string_match(cands[i], 0)]

num_cpus == Min(executor_cpus, Len(candidates))

\* A plausible slip: the segment size rounded down
segment_size_floor == Len(candidates) \div num_cpus

segment_size == (Len(candidates) + num_cpus - 1) \div num_cpus

segment_start(segment_idx) == Min(segment_idx * segment_size, Len(candidates))

\* A plausible slip: an off-by-one at the end of the segment
segment_end_short(segment_idx) ==
    Min(segment_start(segment_idx) + segment_size - 1, Len(candidates))

segment_end(segment_idx) ==
    Min(segment_start(segment_idx) + segment_size, Len(candidates))

\* A plausible slip: the merge is handed a limit that is not the cap
merge_segment_uncapped(acc, segment_result, cap) ==
    IF acc = <<>> THEN segment_result
    ELSE extend_sorted(acc, segment_result, Len(acc) + Len(segment_result))

\* A plausible slip: the emptiness test of the accumulator inverted
merge_segment_overwrite(acc, segment_result, cap) ==
    IF acc /= <<>> THEN segment_result
    ELSE extend_sorted(acc, segment_result, cap)

\* The body of the merge loop for one segment_result
merge_segment(acc, segment_result, cap) ==
    IF acc = <<>> THEN segment_result
    ELSE extend_sorted(acc, segment_result, cap)

\* ------------------------------------------------- StringMatch::ranges
\* A string is modelled by its bytes: the first byte of a character holds the
\* character's UTF-8 length, a continuation byte holds 0 ("hél" = <<1, 2, 0, 1>>)
RECURSIVE Encode(_)
Encode(char_lens) ==
    IF char_lens = <<>> THEN <<>>
    ELSE <<Head(char_lens)>> \o [i \in 1..(Head(char_lens) - 1) |-> 0]
         \o Encode(Tail(char_lens))

None == <<>>
Some(x) == <<x>>

\* A plausible slip: character-count arithmetic, every character taken as 1 byte
char_len_at_index_one(string, ix) ==
    IF ix < Len(string) /\ string[ix + 1] > 0 THEN Some(1) ELSE None

\* self.string.get(ix..).and_then(|slice| slice.chars().next().map(|c| c.len_utf8())):
\* None when ix is past the end, not on a character boundary, or at the very end
char_len_at_index(string, ix) ==
    IF ix < Len(string) /\ string[ix + 1] > 0 THEN Some(string[ix + 1]) ELSE None

\* A plausible slip: on an invalid position the loop breaks and the run built so
\* far is yielded
RECURSIVE extend_run_keep(_, _, _, _)
extend_run_keep(string, positions, cursor, end) ==
    IF cursor < Len(positions) /\ positions[cursor + 1] = end
    THEN LET char_len == char_len_at_index(string, end)
         IN IF char_len = None
            THEN [ok |-> TRUE, end |-> end, cursor |-> cursor]
            ELSE extend_run_keep(string, positions, cursor + 1, end + char_len[1])
    ELSE [ok |-> TRUE, end |-> end, cursor |-> cursor]

\* The `while let Some(next_start) = positions.peek()` loop of one call of the
\* closure: [ok, end, cursor], ok = FALSE when it left through `return None`
RECURSIVE extend_run(_, _, _, _)
extend_run(string, positions, cursor, end) ==
    IF cursor < Len(positions) /\ positions[cursor + 1] = end
    THEN LET char_len == char_len_at_index(string, end)
         IN IF char_len = None
            THEN [ok |-> FALSE, end |-> end, cursor |-> cursor]
            ELSE extend_run(string, positions, cursor + 1, end + char_len[1])
    ELSE [ok |-> TRUE, end |-> end, cursor |-> cursor]

\* One call of the closure of iter::from_fn: the item it returns, the cursor of
\* the peekable iterator afterwards, and whether it logged a diagnostic
ranges_next(string, positions, cursor) ==
    IF cursor >= Len(positions)
    THEN [item |-> None, cursor |-> cursor, logged |-> FALSE]
    ELSE LET start == positions[cursor + 1]
             char_len == char_len_at_index(string, start)
         IN IF char_len = None
            THEN [item |-> None, cursor |-> cursor + 1, logged |-> TRUE]
            ELSE LET run == extend_run(string, positions, cursor + 1, start + char_len[1])
                 IN IF run.ok
                    THEN [item |-> Some([start |-> start, end |-> run.end]),
                          cursor |-> run.cursor, logged |-> FALSE]
                    ELSE [item |-> None, cursor |-> run.cursor, logged |-> TRUE]

\* ---------------------------------------------------------------- Init
Scores == 0..MaxScore

\* candidate ids are distinct; they ascend or descend along the slice
Ids(n) == { [i \in 1..n |-> i], [i \in 1..n |-> n + 1 - i] }

Strings == <<"alpha", "beta", "gamma", "delta", "epsilon", "zeta", "eta", "theta">>

CandidateSlices ==
    UNION { { [i \in 1..n |-> [id |-> ids[i], string |-> Strings[i], score |-> sc[i]]]
              : ids \in Ids(n), sc \in [1..n -> Scores] }
            : n \in 0..MaxCands }

\* no StringMatch is being iterated
RangesIdle ==
    /\ r_string = <<>>
    /\ r_positions = <<>>
    /\ r_cursor = 0
    /\ r_out = <<>>
    /\ r_ended = FALSE
    /\ r_logged = 0

\* no StringMatch values are being compared
OrderIdle ==
    /\ o_a = <<>>
    /\ o_b = <<>>
    /\ o_c = <<>>
    /\ o_out = <<>>

\* no list has been painted: ListScrollHandle::new()
ListIdle ==
    /\ l_state = <<>>
    /\ l_scroll_y = 0
    /\ l_call = <<>>

Init ==
    /\ RangesIdle
    /\ OrderIdle
    /\ ListIdle
    /\ candidates \in CandidateSlices
    /\ query \in { <<>>, <<"a">> }
    /\ smart_case \in BOOLEAN
    /\ max_results \in 0..MaxResults
    /\ executor_cpus \in 1..MaxCpus
    /\ cancel_flag = FALSE
    /\ pc = "idle"
    /\ task_pc = <<>>
    /\ task_ix = <<>>
    /\ segment_results = <<>>
    /\ merge_ix = 0
    /\ results = <<>>
    /\ tasks_launched = 0
    /\ scorer_calls = 0
    /\ sync_pc = "idle"
    /\ sync_ix = 0
    /\ sync_results = <<>>

\* ------------------------------------------------------------- actions
\* The caller sets the cancellation flag
Cancel ==
    /\ cancel_flag = FALSE
    /\ cancel_flag' = TRUE
    /\ UNCHANGED <<inputs, parallel, scorer_calls, synchronous, rangesVars, orderVars, listVars>>

\* match_strings up to the spawning of the tasks, or to an early return
MatchStrings ==
    /\ pc = "idle"
    /\ IF is_degenerate(candidates, max_results)
       THEN /\ results' = <<>>
            /\ pc' = "done"
            /\ UNCHANGED <<task_pc, task_ix, segment_results, tasks_launched, scorer_calls>>
       ELSE IF query = <<>>
       THEN /\ results' = empty_query_results(candidates)
            /\ pc' = "done"
            /\ UNCHANGED <<task_pc, task_ix, segment_results, tasks_launched, scorer_calls>>
       ELSE /\ segment_results' = [i \in 1..num_cpus |-> <<>>]
            /\ task_pc' = [i \in 1..num_cpus |-> "scoring"]
            /\ task_ix' = [i \in 1..num_cpus |-> segment_start(i - 1)]
            /\ tasks_launched' = num_cpus
            /\ scorer_calls' = scorer_calls + num_cpus
            /\ pc' = "spawned"
            /\ UNCHANGED results
    /\ UNCHANGED <<inputs, cancel_flag, merge_ix, synchronous, rangesVars, orderVars, listVars>>

\* The pc of a task after an iteration that left it at offset ix of a segment ending at end
task_pc_after(exited, ix, end) == IF exited \/ ix >= end THEN "done" ELSE "scoring"

\* One iteration of match_candidates in the task of segment i (1-based)
TaskStep(i) ==
    /\ pc = "spawned"
    /\ i \in 1..Len(task_pc)
    /\ task_pc[i] = "scoring"
    /\ IF task_ix[i] >= segment_end(i - 1) \/ cancel_flag
       THEN /\ task_pc' = [task_pc EXCEPT ![i] =
                              task_pc_after(TRUE, task_ix[i], segment_end(i - 1))]
            /\ UNCHANGED <<task_ix, segment_results>>
       ELSE /\ segment_results' =
                [segment_results EXCEPT ![i] =
                    match_candidate(@, candidates[task_ix[i] + 1], max_results)]
            /\ task_ix' = [task_ix EXCEPT ![i] = @ + 1]
            /\ task_pc' = [task_pc EXCEPT ![i] =
                              task_pc_after(FALSE, task_ix[i] + 1, segment_end(i - 1))]
    /\ UNCHANGED <<inputs, cancel_flag, pc, merge_ix, results, tasks_launched,
                   scorer_calls, synchronous, rangesVars, orderVars, listVars>>

\* A plausible slip: the join returns as soon as one task has completed
all_joined_any == \E i \in 1..Len(task_pc) : task_pc[i] = "done"

\* A plausible slip: the join waits for one completion per worker of the executor
all_joined_per_worker ==
    \A i \in 1..executor_cpus : i <= Len(task_pc) /\ task_pc[i] = "done"

\* executor.scoped(..).await returns once every spawned task has completed
all_joined == \A i \in 1..Len(task_pc) : task_pc[i] = "done"

\* A plausible slip: the orchestrator clears the flag once the tasks have joined
Join_clearing_flag ==
    /\ pc = "spawned"
    /\ all_joined
    /\ pc' = "merging"
    /\ results' = <<>>
    /\ merge_ix' = 1
    /\ cancel_flag' = FALSE
    /\ UNCHANGED <<inputs, task_pc, task_ix, segment_results,
                   tasks_launched, scorer_calls, synchronous, rangesVars, orderVars, listVars>>

Join ==
    /\ pc = "spawned"
    /\ all_joined
    /\ pc' = "merging"
    /\ results' = <<>>
    /\ merge_ix' = 1
    /\ UNCHANGED <<inputs, cancel_flag, task_pc, task_ix, segment_results,
                   tasks_launched, scorer_calls, synchronous, rangesVars, orderVars, listVars>>

\* One iteration of `for segment_result in segment_results`; the last one returns
MergeStep ==
    /\ pc = "merging"
    /\ merge_ix <= Len(segment_results)
    /\ results' = merge_segment(results, segment_results[merge_ix], max_results)
    /\ merge_ix' = merge_ix + 1
    /\ pc' = IF merge_ix = Len(segment_results) THEN "done" ELSE "merging"
    /\ UNCHANGED <<inputs, cancel_flag, task_pc, task_ix, segment_results,
                   tasks_launched, scorer_calls, synchronous, rangesVars, orderVars, listVars>>

\* match_strings_synchronously up to the call of match_candidates, or to an early
\* return; the caller runs it on the same input once match_strings has returned
MatchStringsSynchronously ==
    /\ pc = "done"
    /\ sync_pc = "idle"
    /\ IF is_degenerate(candidates, max_results)
       THEN /\ sync_results' = <<>>
            /\ sync_pc' = "done"
            /\ UNCHANGED <<sync_ix, scorer_calls>>
       ELSE IF query = <<>>
       THEN /\ sync_results' = empty_query_results(candidates)
            /\ sync_pc' = "done"
            /\ UNCHANGED <<sync_ix, scorer_calls>>
       ELSE /\ sync_results' = <<>>
            /\ sync_ix' = 0
            /\ sync_pc' = "scoring"
            /\ scorer_calls' = scorer_calls + 1
    /\ UNCHANGED <<inputs, cancel_flag, parallel, rangesVars, orderVars, listVars>>

\* One iteration of match_candidates over the whole slice
SyncStep ==
    /\ sync_pc = "scoring"
    /\ IF cancel_flag
       THEN /\ sync_pc' = "done"
            /\ UNCHANGED <<sync_ix, sync_results>>
       ELSE /\ sync_results' = match_candidate(sync_results, candidates[sync_ix + 1], max_results)
            /\ sync_ix' = sync_ix + 1
            /\ sync_pc' = task_pc_after(FALSE, sync_ix + 1, Len(candidates))
    /\ UNCHANGED <<inputs, cancel_flag, parallel, scorer_calls, rangesVars, orderVars, listVars>>

\* ---------------------------------------------- iterating ranges()
\* The strings of at most MaxChars characters of 1..MaxCharLen bytes each
Texts ==
    UNION { { Encode(lens) : lens \in [1..n -> 1..MaxCharLen] } : n \in 0..MaxChars }

\* The strictly increasing sequences of at most MaxPositions offsets in 0..len
\* (offset len is out of bounds for a character)
RECURSIVE Ascending(_)
Ascending(S) ==
    IF S = {} THEN <<>>
    ELSE LET m == CHOOSE x \in S : \A y \in S : x <= y
         IN <<m>> \o Ascending(S \ {m})

PositionLists(len) ==
    { Ascending(S) : S \in { T \in SUBSET (0..len) : Cardinality(T) <= MaxPositions } }

\* no call of match_strings or match_strings_synchronously is under way
MatchIdle ==
    /\ candidates = <<>>
    /\ query = <<>>
    /\ smart_case = FALSE
    /\ max_results = 0
    /\ executor_cpus = 1
    /\ cancel_flag = FALSE
    /\ pc = "done"
    /\ task_pc = <<>>
    /\ task_ix = <<>>
    /\ segment_results = <<>>
    /\ merge_ix = 0
    /\ results = <<>>
    /\ tasks_launched = 0
    /\ scorer_calls = 0
    /\ sync_pc = "done"
    /\ sync_ix = 0
    /\ sync_results = <<>>

\* A StringMatch with some string and some positions, ranges() just called
InitRanges ==
    /\ MatchIdle
    /\ OrderIdle
    /\ ListIdle
    /\ r_string \in Texts
    /\ r_positions \in PositionLists(Len(r_string))
    /\ r_cursor = 0
    /\ r_out = <<>>
    /\ r_ended = FALSE
    /\ r_logged = 0

\* The consumer takes the next item, until the iterator returns None
RangesNext ==
    /\ ~r_ended
    /\ LET r == ranges_next(r_string, r_positions, r_cursor)
       IN /\ r_cursor' = r.cursor
          /\ r_out' = IF r.item = None THEN r_out ELSE Append(r_out, r.item[1])
          /\ r_ended' = (r.item = None)
          /\ r_logged' = IF r.logged THEN r_logged + 1 ELSE r_logged
    /\ UNCHANGED <<r_string, r_positions, inputs, cancel_flag, parallel,
                   scorer_calls, synchronous, orderVars, listVars>>

NextRanges == RangesNext

SpecRanges == InitRanges /\ [][NextRanges]_vars

Next ==
    \/ Cancel
    \/ MatchStrings
    \/ \E i \in 1..MaxCpus : TaskStep(i)
    \/ Join
    \/ MergeStep
    \/ MatchStringsSynchronously
    \/ SyncStep

Spec == Init /\ [][Next]_vars

\* match_strings under the scheduling of the executor: the orchestrator and every
\* spawned task keep running (no task suspends inside its scoring pass)
\* The calls whose termination is checked: the ids ascend along the slice and
\* smart_case is off (neither is read by the orchestration)
InitFair ==
    /\ Init
    /\ ~smart_case
    /\ \A i \in 1..Len(candidates) : candidates[i].id = i

FairSpec ==
    /\ InitFair
    /\ [][Next]_vars
    /\ WF_vars(MatchStrings)
    /\ \A i \in 1..MaxCpus : WF_vars(TaskStep(i))
    /\ WF_vars(Join)
    /\ WF_vars(MergeStep)

\* ------------------------------------------------- helpers of the claims
IdsOf(seq) == [i \in 1..Len(seq) |-> seq[i].candidate_id]

Range(seq) == { seq[i] : i \in 1..Len(seq) }

\* the calls that reach the Scorer
Scored == candidates /= <<>> /\ max_results > 0 /\ query /= <<>>

\* x ranks before y in a returned sequence: higher score, then larger candidate_id
RanksBefore(x, y) ==
    \/ x.score > y.score
    \/ x.score = y.score /\ x.candidate_id > y.candidate_id

RECURSIVE Ranked(_)
Ranked(S) ==
    IF S = {} THEN <<>>
    ELSE LET top == CHOOSE x \in S : \A y \in S \ {x} : RanksBefore(x, y)
         IN <<top>> \o Ranked(S \ {top})

\* the k best of a set of matches with pairwise distinct (score, candidate_id)
TopRanked(S, k) == SubSeq(Ranked(S), 1, Min(k, Cardinality(S)))

\* the matches of the candidates at offsets from..to-1 of the slice
MatchesOf(from, to) ==
    { [candidate_id |-> candidates[j].id, score |-> candidates[j].score,
       positions |-> <<0>>, string |-> candidates[j].string]
        : j \in { j \in (from + 1)..to : candidates[j].score > 0 } }

\* the segment (1-based task index) a candidate_id of the slice belongs to
SegmentOf(id) ==
    CHOOSE i \in 1..num_cpus :
        \E j \in (segment_start(i - 1) + 1)..segment_end(i - 1) : candidates[j].id = id

ScoreDescending(seq) ==
    \A i \in 1..Len(seq), j \in 1..Len(seq) : i < j => seq[i].score >= seq[j].score

\* a task left its loop through the cancellation flag, with candidates unexamined
StoppedEarly(i) == task_pc[i] = "done" /\ task_ix[i] < segment_end(i - 1)

\* ---------------------------------------------------------------- claims
\* C1: for a non-empty query and no cancellation, match_strings (sharded, merged)
\* returns the same candidate ids in the same order as
\* match_strings_synchronously on the same input.
C1_ParallelEqualsSynchronous ==
    (pc = "done" /\ sync_pc = "done" /\ ~cancel_flag /\ query /= <<>>)
        => IdsOf(results) = IdsOf(sync_results)

\* C1 witness: both calls returned uncancelled, the cap cut the result, and the
\* returned results come from two different segments
C1_Witness ==
    /\ pc = "done" /\ sync_pc = "done" /\ ~cancel_flag /\ Scored
    /\ Cardinality(MatchesOf(0, Len(candidates))) > max_results
    /\ Len(results) = 2
    /\ IdsOf(results) = IdsOf(sync_results)
    /\ SegmentOf(results[1].candidate_id) /= SegmentOf(results[2].candidate_id)

\* C2: whenever the candidate set is empty or max_results = 0, both entry points
\* return the empty sequence, whatever the query, smart_case and the cancellation
\* flag are, no task is launched and the Scorer is never invoked.
C2_DegenerateReturnsEmpty ==
    (candidates = <<>> \/ max_results = 0)
        => /\ tasks_launched = 0
           /\ scorer_calls = 0
           /\ task_pc = <<>>
           /\ pc = "done" => results = <<>>
           /\ sync_pc = "done" => sync_results = <<>>

\* C2 witness: both calls returned on candidates with a cap of zero, a non-empty
\* query, smart_case and the cancellation flag set
C2_Witness ==
    /\ candidates /= <<>> /\ max_results = 0 /\ query /= <<>>
    /\ smart_case /\ cancel_flag
    /\ pc = "done" /\ sync_pc = "done"
    /\ results = <<>> /\ sync_results = <<>>

\* the result of the empty-query branch: one result per candidate, in input order,
\* with score 0 and no positions
TrivialMatches(seq) ==
    /\ Len(seq) = Len(candidates)
    /\ \A i \in 1..Len(seq) :
        /\ seq[i].candidate_id = candidates[i].id
        /\ seq[i].string = candidates[i].string
        /\ seq[i].score = 0
        /\ seq[i].positions = <<>>

\* C3 as stated: for a non-empty candidate set and an empty query, for EVERY value
\* of max_results, both entry points return one trivial result per candidate.
C3_Original_EmptyQueryReturnsAllForEveryCap ==
    (candidates /= <<>> /\ query = <<>>)
        => /\ pc = "done" => TrivialMatches(results)
           /\ sync_pc = "done" => TrivialMatches(sync_results)

\* C3 amended: for a non-empty candidate set, an empty query and max_results >= 1,
\* both entry points return one result per candidate, in input order, with score 0
\* and empty positions; the output length is the input length, also above the cap.
C3_EmptyQueryReturnsAll ==
    (candidates /= <<>> /\ query = <<>> /\ max_results >= 1)
        => /\ pc = "done" => TrivialMatches(results)
           /\ sync_pc = "done" => TrivialMatches(sync_results)

\* C3 witness: both calls returned more results than the cap on an empty query
C3_Witness ==
    /\ query = <<>> /\ max_results >= 1 /\ Len(candidates) > max_results
    /\ pc = "done" /\ sync_pc = "done"
    /\ Len(results) = Len(candidates) /\ Len(sync_results) = Len(candidates)

\* C4: for a non-empty query the merge accumulator never holds more than
\* max_results results after any merge step (the adoption of the first non-empty
\* list included), nor does the value either entry point returns.
C4_LengthBound ==
    query /= <<>>
        => /\ pc \in {"merging", "done"} => Len(results) <= max_results
           /\ sync_pc \in {"scoring", "done"} => Len(sync_results) <= max_results

\* C4 witness: a merge step after the adoption had to cut: the accumulator is full
\* and the segment lists merged so far hold more results than the cap
C4_Witness ==
    /\ Scored /\ pc \in {"merging", "done"} /\ merge_ix >= 3
    /\ Len(results) = max_results
    /\ Cardinality(UNION { Range(segment_results[i]) : i \in 1..(merge_ix - 1) })
           > max_results
    /\ segment_results[1] /= <<>>

\* C5 as stated: in the merged sequence, of two results with equal score the one
\* with the SMALLER candidate_id comes first.
C5_Original_TieSmallerIdFirst ==
    (Scored /\ pc \in {"merging", "done"})
        => \A i \in 1..Len(results), j \in 1..Len(results) :
              (i < j /\ results[i].score = results[j].score)
                  => results[i].candidate_id < results[j].candidate_id

\* C5 amended: in the merged sequence, of two results with equal score the one
\* with the LARGER candidate_id comes first, whichever segment produced each: the
\* lists are kept descending by the StringMatch order (score, then candidate_id).
C5_TieLargerIdFirst ==
    (Scored /\ pc \in {"merging", "done"})
        => \A i \in 1..Len(results), j \in 1..Len(results) :
              (i < j /\ results[i].score = results[j].score)
                  => results[i].candidate_id > results[j].candidate_id

\* C5 witness: the returned sequence holds two results of equal score from two
\* different segments, the first of them from the earlier segment
C5_Witness ==
    /\ Scored /\ pc = "done" /\ Len(results) = 2
    /\ results[1].score = results[2].score
    /\ results[1].candidate_id > results[2].candidate_id
    /\ SegmentOf(results[1].candidate_id) < SegmentOf(results[2].candidate_id)

\* C6: for a non-empty query the scores along the merge accumulator are
\* non-increasing after every merge step, and so are they along the sequences
\* match_strings and match_strings_synchronously return.
C6_SortedByScore ==
    query /= <<>>
        => /\ pc \in {"merging", "done"} => ScoreDescending(results)
           /\ sync_pc \in {"scoring", "done"} => ScoreDescending(sync_results)

\* C6 witness: the merge put a result of a later segment before a result of an
\* earlier one, because of its higher score
C6_Witness ==
    /\ Scored /\ pc = "done" /\ Len(results) = 2
    /\ results[1].score > results[2].score
    /\ SegmentOf(results[1].candidate_id) > SegmentOf(results[2].candidate_id)

\* C7: without cancellation, what match_strings returns is a function of the
\* candidates and the cap alone (the max_results best matches of the whole slice,
\* in rank order), whatever the interleaving and completion order of the tasks.
C7_ScheduleIndependent ==
    (Scored /\ pc = "done" /\ ~cancel_flag)
        => results = TopRanked(MatchesOf(0, Len(candidates)), max_results)

\* C7 witness: a call with three tasks, two of which found results, returned
\* uncancelled
C7_Witness ==
    /\ Scored /\ pc = "done" /\ ~cancel_flag
    /\ tasks_launched = 3
    /\ Cardinality({ i \in 1..3 : segment_results[i] /= <<>> }) >= 2
    /\ results /= <<>>

\* C8: with the cancellation flag set before or during the call, each segment list
\* holds what its task had accumulated over the candidates it examined, and the
\* returned sequence is the max_results best of the union of the segment lists,
\* one result per distinct input candidate, within the cap and sorted.
C8_CancelKeepsCompletedWork ==
    (Scored /\ pc = "done" /\ cancel_flag)
        => /\ \A i \in 1..Len(segment_results) :
                segment_results[i] =
                    TopRanked(MatchesOf(segment_start(i - 1), task_ix[i]), max_results)
           /\ results = TopRanked(UNION { Range(segment_results[i]) :
                                            i \in 1..Len(segment_results) }, max_results)
           /\ \A i \in 1..Len(results), j \in 1..Len(results) :
                i /= j => results[i].candidate_id /= results[j].candidate_id
           /\ \A i \in 1..Len(results) :
                \E j \in 1..Len(candidates) : candidates[j].id = results[i].candidate_id
           /\ Len(results) <= max_results
           /\ ScoreDescending(results)

\* C8 witness: the flag was set while tasks were in flight: one task stopped early
\* with a result, another segment has results too, and both are in what is returned
C8_Witness ==
    /\ Scored /\ pc = "done" /\ cancel_flag
    /\ \E i \in 1..Len(task_pc), k \in 1..Len(task_pc) :
        /\ i /= k
        /\ StoppedEarly(i)
        /\ segment_results[i] /= <<>>
        /\ segment_results[k] /= <<>>
        /\ segment_results[i][1] \in Range(results)
        /\ segment_results[k][1] \in Range(results)

\* C9: under weak fairness of the orchestrator and the tasks, every call of
\* match_strings returns, cancelled or not; before it returns some step of the call
\* is always enabled (no deadlock), and when it returns after a fan-out the merge
\* has taken each segment list exactly once.
C9_Returns ==
    /\ <>(pc = "done")
    /\ [](pc /= "done" =>
            ENABLED (MatchStrings \/ (\E i \in 1..MaxCpus : TaskStep(i)) \/ Join \/ MergeStep))
    /\ []((pc = "done" /\ tasks_launched > 0) =>
            /\ merge_ix = tasks_launched + 1
            /\ \A i \in 1..Len(task_pc) : task_pc[i] = "done")

\* C9 witness: a call whose flag was set while tasks were in flight returned after
\* joining three tasks, one of which stopped early
C9_Witness ==
    /\ pc = "done" /\ cancel_flag /\ tasks_launched = 3
    /\ merge_ix = 4
    /\ \E i \in 1..3 : StoppedEarly(i)
    /\ \E i \in 1..3 : ~StoppedEarly(i)

\* the offsets of r_string that start a character
CharStarts == { ix \in 0..(Len(r_string) - 1) : r_string[ix + 1] > 0 }

\* the positions are valid: strictly increasing starts of characters
ValidPositions ==
    /\ \A i \in 1..Len(r_positions) : r_positions[i] \in CharStarts
    /\ \A i \in 1..(Len(r_positions) - 1) : r_positions[i] < r_positions[i + 1]

\* C10: for strictly increasing positions that all start a character, the ranges
\* yielded up to the end of the sequence are half-open byte ranges between
\* character boundaries, in increasing order, pairwise disjoint and never ending
\* where the next begins; the character starts they cover are exactly the
\* positions (one range per maximal run of characters adjacent in bytes), and no
\* diagnostic is logged.
C10_RangesAreMaximalRuns ==
    (r_ended /\ ValidPositions)
        => /\ \A i \in 1..Len(r_out) :
                /\ r_out[i].start \in CharStarts
                /\ r_out[i].start < r_out[i].end
                /\ r_out[i].end \in CharStarts \cup {Len(r_string)}
           /\ \A i \in 1..(Len(r_out) - 1) : r_out[i].end < r_out[i + 1].start
           /\ { ix \in CharStarts :
                  \E i \in 1..Len(r_out) : r_out[i].start <= ix /\ ix < r_out[i].end }
              = Range(r_positions)
           /\ r_logged = 0

\* C10 witness: positions [0, 1, 3] over a text whose second character takes the
\* two bytes at offsets 1 and 2 gave the single range 0..4
C10_Witness ==
    /\ r_ended
    /\ r_string = <<1, 2, 0, 1>>
    /\ r_positions = <<0, 1, 3>>
    /\ r_out = << [start |-> 0, end |-> 4] >>

\* the end of the run of byte-adjacent character starts of S that begins at ix
RECURSIVE RunEnd(_, _)
RunEnd(ix, S) == IF ix \in S THEN RunEnd(ix + r_string[ix + 1], S) ELSE ix

\* the ranges of the maximal runs of a set S of character starts
RunsOf(S) ==
    { [start |-> s, end |-> RunEnd(s, S)] :
        s \in { s \in S : ~\E p \in S : p + r_string[p + 1] = s } }

\* the positions that are out of bounds or not on a character boundary
InvalidPositions == Range(r_positions) \ CharStarts

\* the positions before the first invalid one
ValidPrefix ==
    { r_positions[i] : i \in { i \in 1..Len(r_positions) :
        \A j \in 1..i : r_positions[j] \in CharStarts } }

\* the first invalid position
FirstInvalid == CHOOSE p \in InvalidPositions : \A q \in InvalidPositions : p <= q

\* C11 as stated: the consumer that iterates up to the first end of the sequence
\* receives the range of every maximal run made solely of valid positions (a run
\* that no invalid position continues), before or after an invalid position.
C11_Original_OnlyCorruptedRangeOmitted ==
    r_ended =>
        \A r \in RunsOf(Range(r_positions) \cap CharStarts) :
            r.end \notin InvalidPositions => r \in Range(r_out)

\* C11 amended: on a position that is out of bounds or not on a character
\* boundary, ranges() raises no failure, logs one diagnostic and ends the sequence
\* there: the consumer receives, in increasing order, exactly the ranges of the
\* maximal runs of the positions before the first invalid one, except the run
\* that ends where the invalid position lies; every later range is omitted.
C11_SequenceEndsAtInvalidPosition ==
    (r_ended /\ InvalidPositions /= {})
        => /\ Range(r_out) = { r \in RunsOf(ValidPrefix) : r.end /= FirstInvalid }
           /\ \A i \in 1..(Len(r_out) - 1) : r_out[i].end < r_out[i + 1].start
           /\ r_logged = 1

\* C11 witness: the run before the invalid position 1 (inside a two-byte
\* character) was yielded, the valid position 2 after it was omitted
C11_Witness ==
    /\ r_ended /\ r_logged = 1
    /\ r_string = <<2, 0, 1, 1>>
    /\ r_positions = <<0, 1, 2>>
    /\ r_out = << [start |-> 0, end |-> 2] >>

\* ------------------------------------------------------------- sharding
\* Calls of match_strings on longer slices, to see every shape of the partition:
\* up to MaxShardCands candidates that all match with the same score, ids
\* ascending, a non-empty query and the largest cap
InitShards ==
    /\ RangesIdle
    /\ OrderIdle
    /\ ListIdle
    /\ candidates \in
        { [i \in 1..n |-> [id |-> i, string |-> Strings[i], score |-> 1]]
            : n \in 0..MaxShardCands }
    /\ query = <<"a">>
    /\ smart_case = FALSE
    /\ max_results = MaxResults
    /\ executor_cpus \in 1..MaxCpus
    /\ cancel_flag = FALSE
    /\ pc = "idle"
    /\ task_pc = <<>>
    /\ task_ix = <<>>
    /\ segment_results = <<>>
    /\ merge_ix = 0
    /\ results = <<>>
    /\ tasks_launched = 0
    /\ scorer_calls = 0
    /\ sync_pc = "idle"
    /\ sync_ix = 0
    /\ sync_results = <<>>

SpecShards == InitShards /\ [][Next]_vars

\* ceil(n / d), stated without the code's arithmetic
CeilDiv(n, d) == CHOOSE q \in 0..n : q * d >= n /\ (q - 1) * d < n

\* the candidate offsets of the segment of task i (1-based)
SegmentOffsets(i) == { k \in 0..(Len(candidates) - 1) :
                         segment_start(i - 1) <= k /\ k < segment_end(i - 1) }

\* C12: for n >= 1 candidates and w >= 1 workers match_strings launches exactly
\* min(w, n) tasks with shard_size = ceil(n / shard_count); the segments of the
\* tasks, in task index order, are contiguous, pairwise non-overlapping, each of
\* length <= shard_size, never pass index n and together cover every candidate
\* index exactly once; each task starts at the start of its segment and stays in it.
C12_SegmentsPartitionTheSlice ==
    tasks_launched > 0 =>
        LET n == Len(candidates)
            shard_count == Min(executor_cpus, n)
        IN /\ tasks_launched = shard_count
           /\ Len(task_pc) = shard_count
           /\ Len(segment_results) = shard_count
           /\ segment_size = CeilDiv(n, shard_count)
           /\ segment_start(0) = 0
           /\ segment_end(shard_count - 1) = n
           /\ \A i \in 1..shard_count :
                /\ segment_start(i - 1) <= segment_end(i - 1)
                /\ segment_end(i - 1) - segment_start(i - 1) <= segment_size
                /\ segment_end(i - 1) <= n
                /\ i > 1 => segment_start(i - 1) = segment_end(i - 2)
                /\ segment_start(i - 1) <= task_ix[i]
                /\ task_ix[i] <= segment_end(i - 1)
           /\ \A k \in 0..(n - 1) :
                Cardinality({ i \in 1..shard_count : k \in SegmentOffsets(i) }) = 1

\* C12 witness: 5 candidates on 3 workers: segments of 2, 2 and 1 candidates
C12_Witness ==
    /\ pc = "spawned" /\ tasks_launched = 3 /\ Len(candidates) = 5
    /\ segment_size = 2
    /\ SegmentOffsets(1) = {0, 1}
    /\ SegmentOffsets(2) = {2, 3}
    /\ SegmentOffsets(3) = {4}

\* C13 as stated: no task launched by match_strings has an empty segment.
C13_Original_NoEmptySegment ==
    tasks_launched > 0 =>
        \A i \in 1..tasks_launched : segment_start(i - 1) < segment_end(i - 1)

\* C13 amended: the cap of the task count by the candidate count does not keep
\* every segment non-empty: the segment of the task with index i (0-based) is
\* non-empty exactly when i * ceil(n / shard_count) < n, so the first task always
\* has candidates and only trailing tasks can have an empty segment; a task with
\* an empty segment completes without examining a candidate.
C13_OnlyTrailingSegmentsEmpty ==
    tasks_launched > 0 =>
        LET n == Len(candidates)
            size == CeilDiv(n, Min(executor_cpus, n))
        IN /\ segment_start(0) < segment_end(0)
           /\ \A i \in 1..tasks_launched :
                /\ (segment_start(i - 1) < segment_end(i - 1)) <=> ((i - 1) * size < n)
                /\ (segment_start(i - 1) = segment_end(i - 1) /\ i < tasks_launched)
                      => segment_start(i) = segment_end(i)
                /\ (segment_start(i - 1) = segment_end(i - 1) /\ task_pc[i] = "done")
                      => segment_results[i] = <<>>

\* C13 witness: 4 candidates on 3 workers give segments of size 2, and the third
\* task has completed on the empty segment 4..4 without a cancellation
C13_Witness ==
    /\ Len(candidates) = 4 /\ executor_cpus = 3 /\ tasks_launched = 3
    /\ ~cancel_flag
    /\ segment_start(2) = 4 /\ segment_end(2) = 4
    /\ task_pc[3] = "done" /\ task_ix[3] = 4

\* C14: each segment list is written only by the task of its segment, while that
\* task is running and before the join; the merge starts only after every task
\* has completed, so the accumulator changes and the lists are read only then;
\* no step writes two lists, and no list changes once the merge has begun.
C14_ListsOwnedUntilJoin ==
    /\ []((pc \in {"merging", "done"} /\ tasks_launched > 0)
            => \A i \in 1..Len(task_pc) : task_pc[i] = "done")
    /\ [][\A i \in 1..Len(segment_results) :
            segment_results'[i] /= segment_results[i]
                => /\ pc = "spawned" /\ pc' = "spawned"
                   /\ task_pc[i] = "scoring"
                   /\ task_ix'[i] = task_ix[i] + 1
                   /\ \A j \in 1..Len(segment_results) :
                        j /= i => /\ segment_results'[j] = segment_results[j]
                                  /\ task_ix'[j] = task_ix[j]
                                  /\ task_pc'[j] = task_pc[j]]_vars
    /\ [][(results' /= results /\ tasks_launched > 0)
            => /\ pc \in {"spawned", "merging"}
               /\ \A i \in 1..Len(task_pc) : task_pc[i] = "done"
               /\ segment_results' = segment_results]_vars

\* C14 witness: the merge is under way on three lists, two of them non-empty, with
\* every task completed
C14_Witness ==
    /\ pc = "merging" /\ merge_ix = 2 /\ tasks_launched = 3
    /\ \A i \in 1..3 : task_pc[i] = "done"
    /\ segment_results[1] /= <<>> /\ segment_results[2] /= <<>>
    /\ results = segment_results[1]

\* ------------------------------------------------- comparing StringMatch
\* The StringMatch values compared: any f64 score (NaN included), any candidate_id
OrderScores == {NaN} \cup (0..MaxScore)

Matches(strings, positions) ==
    [candidate_id : 1..MaxCands, score : OrderScores,
     positions : positions, string : strings]

InitOrder ==
    /\ MatchIdle
    /\ RangesIdle
    /\ ListIdle
    /\ o_a \in Matches({"alpha", "beta"}, {<<>>, <<0>>})
    /\ o_b \in Matches({"alpha", "beta"}, {<<>>, <<0>>})
    /\ o_c \in Matches({"gamma"}, {<<>>})
    /\ o_out = None

\* a.cmp(&b), b.cmp(&a), b.cmp(&c), a.cmp(&c) and a == b are evaluated
Compare ==
    /\ o_out = None
    /\ o_out' = Some([ab |-> cmp(o_a, o_b), ba |-> cmp(o_b, o_a),
                      bc |-> cmp(o_b, o_c), ac |-> cmp(o_a, o_c),
                      eq_ab |-> eq(o_a, o_b)])
    /\ UNCHANGED <<o_a, o_b, o_c, inputs, cancel_flag, parallel, scorer_calls,
                   synchronous, rangesVars, listVars>>

NextOrder == Compare

SpecOrder == InitOrder /\ [][NextOrder]_vars

\* Ordering::reverse
Reverse(ordering) ==
    IF ordering = "Less" THEN "Greater"
    ELSE IF ordering = "Greater" THEN "Less"
    ELSE "Equal"

\* C15: the StringMatch order is a total order on all results, not-a-number scores
\* included: every comparison returns an Ordering, cmp(a, b) is the reverse of
\* cmp(b, a), and a < b and b < c imply a < c.
C15_TotalOrder ==
    o_out /= None =>
        LET out == o_out[1]
        IN /\ out.ab \in {"Less", "Equal", "Greater"}
           /\ out.ab = Reverse(out.ba)
           /\ (out.ab = "Less" /\ out.bc = "Less") => out.ac = "Less"

\* C16: a == b exactly when cmp yields neither less-than nor greater-than, which
\* holds if and only if a and b have equal score and equal candidate_id; positions
\* and string take no part (a and b range over values that differ in them).
C16_EqIffSameScoreAndId ==
    o_out /= None =>
        LET out == o_out[1]
        IN /\ out.eq_ab <=> (out.ab /= "Less" /\ out.ab /= "Greater")
           /\ out.eq_ab <=> /\ o_a.score = o_b.score
                            /\ o_a.candidate_id = o_b.candidate_id

\* the steps of match_strings, of its tasks, of its merge and of
\* match_strings_synchronously
CallStep ==
    \/ MatchStrings
    \/ \E i \in 1..MaxCpus : TaskStep(i)
    \/ Join
    \/ MergeStep
    \/ MatchStringsSynchronously
    \/ SyncStep

\* C17: no step of the orchestrator, of a task, of the merge or of the synchronous
\* entry point changes the cancellation flag; a step that changes it is the
\* caller's and changes nothing of the calls.
C17_FlagWrittenOnlyByCaller ==
    /\ [][CallStep => cancel_flag' = cancel_flag]_vars
    /\ [][cancel_flag' /= cancel_flag
            => UNCHANGED <<inputs, parallel, scorer_calls, synchronous>>]_vars

\* C17 witness: the caller set the flag while tasks were in flight; a task and the
\* synchronous pass both stopped on it, and it is still set after both calls
C17_Witness ==
    /\ cancel_flag /\ pc = "done" /\ sync_pc = "done"
    /\ tasks_launched >= 2
    /\ \E i \in 1..Len(task_pc) : StoppedEarly(i) /\ task_ix[i] > segment_start(i - 1)
    /\ sync_ix < Len(candidates)

\* the results of the segment lists the merge loop has taken so far
Merged == UNION { Range(segment_results[i]) : i \in 1..(merge_ix - 1) }

\* C18: with pairwise distinct input ids, the accumulator and the returned
\* sequence of match_strings hold each candidate_id at most once, every result
\* carries the id and the text of one input candidate, and a result is lost only
\* through the cap: the length is the smaller of max_results and the number of
\* results in the lists merged so far (for an empty query: the number of candidates).
C18_NoDuplicateNoInventedResult ==
    pc \in {"merging", "done"} =>
        /\ \A i \in 1..Len(results), j \in 1..Len(results) :
              i /= j => results[i].candidate_id /= results[j].candidate_id
        /\ \A i \in 1..Len(results) :
              \E j \in 1..Len(candidates) :
                  /\ candidates[j].id = results[i].candidate_id
                  /\ candidates[j].string = results[i].string
        /\ Scored => /\ Range(results) \subseteq Merged
                     /\ Len(results) = Min(max_results, Cardinality(Merged))
        /\ (query = <<>> /\ max_results > 0) => Len(results) = Len(candidates)

\* C18 witness: three matching candidates with descending ids on three workers and
\* a cap of 2: two results returned, from different segments, one lost to the cap
C18_Witness ==
    /\ Scored /\ pc = "done" /\ max_results = 2 /\ tasks_launched = 3
    /\ candidates[1].id = 3
    /\ Cardinality(Merged) = 3
    /\ Len(results) = 2
    /\ results[1].candidate_id /= results[2].candidate_id

\* ---------------------------------------------------------------------------
\* gpui2 List: ListScrollHandle::scroll_to_item.  Pixels are modelled as integers.

\* A plausible slip: the second branch aligns with item_top instead of item_bottom
scroll_to_item_top_edge(state, scroll_offset_y, ix) ==
    IF state = None THEN scroll_offset_y
    ELSE LET item_top == state[1].item_height * ix
             item_bottom == item_top + state[1].item_height
             scroll_top == -scroll_offset_y
         IN  IF item_top < scroll_top
             THEN -item_top
             ELSE IF item_bottom > scroll_top + state[1].list_height
                  THEN -(item_top - state[1].list_height)
                  ELSE scroll_offset_y

\* scroll_to_item(ix): the scroll_offset.y the call leaves behind
scroll_to_item(state, scroll_offset_y, ix) ==
    IF state = None THEN scroll_offset_y
    ELSE LET item_top == state[1].item_height * ix
             item_bottom == item_top + state[1].item_height
             scroll_top == -scroll_offset_y
         IN  IF item_top < scroll_top
             THEN -item_top
             ELSE IF item_bottom > scroll_top + state[1].list_height
                  THEN -(item_bottom - state[1].list_height)
                  ELSE scroll_offset_y

\* paint: a list with items and a tracked handle replaces the handle's state
\* with the measured item height and the padded height of the list
Paint ==
    /\ \E item_count \in 0..MaxItemCount, tracked \in BOOLEAN,
          item_height \in 0..MaxItemHeight, list_height \in 0..MaxListHeight :
          l_state' = IF item_count > 0 /\ tracked
                     THEN Some([item_height |-> item_height,
                                list_height |-> list_height])
                     ELSE l_state
    /\ l_call' = None
    /\ UNCHANGED <<l_scroll_y, inputs, cancel_flag, parallel, scorer_calls,
                   synchronous, rangesVars, orderVars>>

\* the list's interactive state, which shares the offset, scrolls the list
Scroll ==
    /\ \E y \in 0..MaxScrollTop : l_scroll_y' = -y
    /\ l_scroll_y' /= l_scroll_y
    /\ l_call' = None
    /\ UNCHANGED <<l_state, inputs, cancel_flag, parallel, scorer_calls,
                   synchronous, rangesVars, orderVars>>

\* a view calls scroll_handle.scroll_to_item(ix)
ScrollToItem ==
    /\ \E ix \in 0..MaxIx :
          /\ l_scroll_y' = scroll_to_item(l_state, l_scroll_y, ix)
          /\ l_call' = Some([ix |-> ix, scroll_offset_y |-> l_scroll_y])
    /\ UNCHANGED <<l_state, inputs, cancel_flag, parallel, scorer_calls,
                   synchronous, rangesVars, orderVars>>

InitList ==
    /\ MatchIdle
    /\ RangesIdle
    /\ OrderIdle
    /\ ListIdle

NextList ==
    \/ Paint
    \/ Scroll
    \/ ScrollToItem

SpecList == InitList /\ [][NextList]_vars

\* item ix lies fully inside the viewport of the given state at offset y
FullyInside(state, y, ix) ==
    /\ state.item_height * ix >= -y
    /\ state.item_height * ix + state.item_height <= -y + state.list_height

\* C19: right after scroll_to_item(ix) on a handle whose state a paint has set,
\* with item_height <= list_height, item ix lies fully inside the viewport
\* (item_top >= scroll_top and item_bottom <= scroll_top + list_height, where
\* scroll_top = -scroll_offset.y); if the item already lay fully inside, or the
\* handle has no state yet, the call leaves the scroll offset unchanged.
C19_ScrollToItemRevealsItem ==
    l_call /= None =>
        LET ix == l_call[1].ix
            before == l_call[1].scroll_offset_y
        IN  /\ l_state = None => l_scroll_y = before
            /\ l_state /= None =>
                  /\ l_state[1].item_height <= l_state[1].list_height
                        => FullyInside(l_state[1], l_scroll_y, ix)
                  /\ FullyInside(l_state[1], before, ix) => l_scroll_y = before

\* C19 witness: items of height 2 in a list of height 3 at offset 0; after
\* scroll_to_item(3) the offset is -5, item 3 ([6, 8)) is at the bottom edge
C19_Witness ==
    /\ l_state = Some([item_height |-> 2, list_height |-> 3])
    /\ l_call = Some([ix |-> 3, scroll_offset_y |-> 0])
    /\ l_scroll_y = -5

====
